---------------------------- MODULE Spec2Model ----------------------------
(***************************************************************************)
(* Model of arduino/firmware/client.c: the serial framing / decoding loop  *)
(* that turns a byte stream into pixel writes on two LED strips and        *)
(* acknowledges every completed frame.                                     *)
(*                                                                         *)
(* The firmware is modelled statement by statement: pc names the place in  *)
(* setup()/loop() that runs next.  The host and the serial receive buffer  *)
(* are the environment: the host appends bytes to rx at any moment, so     *)
(* every chunking Serial.available() can report is produced.               *)
(*                                                                         *)
(* LED_COUNT_PER_STRIP and DATA_BLOCK_SIZE are scaled down (150 and 64 in  *)
(* the source); every other constant keeps its source value.               *)
(***************************************************************************)
EXTENDS Integers, Sequences, FiniteSets

\* ---------------------------------------------------------------- bounds
\* client.c:5 has 150; scaled so that a frame is 12 bytes.
LED_COUNT_PER_STRIP == 2
\* client.c:9 has 64; scaled so that a chunk is at most 4 bytes.
DATA_BLOCK_SIZE == 4
\* Frames the host sends at most.
MaxFrames == 2

\* ------------------------------------------------------- program constants
ACK_BYTE == 170
BYTES_PER_LED == 3
TOTAL_LED_COUNT == LED_COUNT_PER_STRIP * 2
NUMBER_OF_BYTES_TO_READ == TOTAL_LED_COUNT * BYTES_PER_LED

\* "Arduino listening for dual strip data..." followed by CR LF, as println
\* writes it.
Banner ==
  << 65, 114, 100, 117, 105, 110, 111, 32,
     108, 105, 115, 116, 101, 110, 105, 110, 103, 32,
     102, 111, 114, 32,
     100, 117, 97, 108, 32,
     115, 116, 114, 105, 112, 32,
     100, 97, 116, 97, 46, 46, 46, 13, 10 >>

\* ------------------------------------------------------------ environment
\* Frame patterns the host chooses from; every byte of a frame is distinct,
\* so a pixel written from the wrong offset is visible.
Patterns == {0, 1}
FrameByte(p, off) == (p * 100 + off + 1) % 256

\* The receive buffer holds one byte more than a chunk, so that
\* Serial.available() can exceed DATA_BLOCK_SIZE.
RxCapacity == DATA_BLOCK_SIZE + 1
\* The host sends MaxFrames frames at most, and as many bytes more as one
\* chunk can run past a frame's end.
MaxStreamBytes == MaxFrames * NUMBER_OF_BYTES_TO_READ + (DATA_BLOCK_SIZE - 1)

VARIABLES
  pc,              \* place in setup()/loop() that runs next; the while
                   \* condition is "while" on entry to loop() and "rewhile"
                   \* after a chunk
  rx,              \* serial receive buffer: bytes Serial.available() reports
  tx,              \* every byte written to the host, in order
  receivedBuffer,  \* byte receivedBuffer[DATA_BLOCK_SIZE]: the chunk read last
  bytesToRead,     \* int bytesToRead
  i,               \* the for loop's index
  ledBuffer,       \* byte ledBuffer[3]
  ledIndex,        \* unsigned int ledIndex
  totalBytesRead,  \* unsigned long totalBytesRead
  leds1, leds2,    \* CRGB leds1[], leds2[]
  hostWaits,       \* the host keeps the one-frame-in-flight contract
  frames,          \* pattern of every frame the host has started
  sent,            \* bytes the host has sent
  consumed,        \* bytes the for loop has processed since power-on
  frameStart,      \* value of consumed at the last counter reset
  shown,           \* what every FastLED.show() pushed: the strips, and the
                   \* value of frameStart at the call
  log,             \* display / ack / reset events in order
  writes           \* pixel writes since the last counter reset, in order:
                   \* << strip, index >>

vars == << pc, rx, tx, receivedBuffer, bytesToRead, i, ledBuffer, ledIndex,
           totalBytesRead, leds1, leds2, hostWaits, frames, sent, consumed,
           frameStart, shown, log, writes >>

fw == << pc, tx, receivedBuffer, bytesToRead, i, ledBuffer, ledIndex,
         totalBytesRead, leds1, leds2, consumed, frameStart, shown, log,
         writes >>
host == << hostWaits, frames, sent >>

Min(a, b) == IF a < b THEN a ELSE b
CRGB(r, g, b) == << r, g, b >>

\* The k-th byte (1-based) of the host's stream.
StreamByte(k) ==
  FrameByte(frames[(k - 1) \div NUMBER_OF_BYTES_TO_READ + 1],
            (k - 1) % NUMBER_OF_BYTES_TO_READ)

\* Number of ACK_BYTEs among the bytes written to the host.
RECURSIVE CountAcks(_)
CountAcks(s) ==
  IF s = << >> THEN 0
  ELSE (IF Head(s) = ACK_BYTE THEN 1 ELSE 0) + CountAcks(Tail(s))

Init ==
  /\ pc = "setup"
  /\ rx = << >>
  /\ tx = << >>
  /\ receivedBuffer = << >>
  /\ bytesToRead = 0
  /\ i = 0
  /\ ledBuffer = [k \in 0 .. 2 |-> 0]
  /\ ledIndex = 0
  /\ totalBytesRead = 0
  /\ leds1 = [k \in 0 .. LED_COUNT_PER_STRIP - 1 |-> CRGB(0, 0, 0)]
  /\ leds2 = [k \in 0 .. LED_COUNT_PER_STRIP - 1 |-> CRGB(0, 0, 0)]
  /\ hostWaits \in BOOLEAN
  /\ frames = << >>
  /\ sent = 0
  /\ consumed = 0
  /\ frameStart = 0
  /\ shown = << >>
  /\ log = << >>
  /\ writes = << >>

\* ---------------------------------------------------------------- firmware
\* setup(): Serial.begin, FastLED set-up, the banner line.  startTime and
\* lastStatusTime are written here and read nowhere.
Setup ==
  /\ pc = "setup"
  /\ tx' = tx \o Banner
  /\ pc' = "idle"
  /\ UNCHANGED << rx, receivedBuffer, bytesToRead, i, ledBuffer, ledIndex,
                  totalBytesRead, leds1, leds2, consumed, frameStart, shown,
                  log, writes >>
  /\ UNCHANGED host

\* Variant: the periodic status report (commented out in loop()) is live:
\* "Available: ", the count, CR LF.
LoopEnter_Status ==
  /\ pc = "idle"
  /\ pc' = "while"
  /\ tx' = tx \o << 65, 118, 97, 105, 108, 97, 98, 108, 101, 58, 32 >>
               \o << 48 + Len(rx), 13, 10 >>
  /\ UNCHANGED << rx, receivedBuffer, bytesToRead, i, ledBuffer, ledIndex,
                  totalBytesRead, leds1, leds2, consumed, frameStart, shown,
                  log, writes >>
  /\ UNCHANGED host

\* The scheduler calls loop().
LoopEnter ==
  /\ pc = "idle"
  /\ pc' = "while"
  /\ UNCHANGED << rx, tx, receivedBuffer, bytesToRead, i, ledBuffer, ledIndex,
                  totalBytesRead, leds1, leds2, consumed, frameStart, shown,
                  log, writes >>
  /\ UNCHANGED host

\* Variant: an idle poll resynchronizes: it drops the frame in progress.
LoopReturn_Resync ==
  /\ pc \in {"while", "rewhile"}
  /\ Len(rx) = 0
  /\ pc' = "idle"
  /\ totalBytesRead' = 0
  /\ ledIndex' = 0
  /\ frameStart' = consumed
  /\ writes' = << >>
  /\ UNCHANGED << rx, tx, receivedBuffer, bytesToRead, i, ledBuffer, leds1,
                  leds2, consumed, shown, log >>
  /\ UNCHANGED host

\* while (Serial.available() > 0) fails: loop() returns.
LoopReturn ==
  /\ pc \in {"while", "rewhile"}
  /\ Len(rx) = 0
  /\ pc' = "idle"
  /\ UNCHANGED << rx, tx, receivedBuffer, bytesToRead, i, ledBuffer, ledIndex,
                  totalBytesRead, leds1, leds2, consumed, frameStart, shown,
                  log, writes >>
  /\ UNCHANGED host

\* Variant: the chunk is not capped.
ChunkSize_NoCap(avail) == avail

\* min((int)Serial.available(), DATA_BLOCK_SIZE)
ChunkSize(avail) == Min(avail, DATA_BLOCK_SIZE)

\* The while condition holds: Serial.readBytes fills the first bytesToRead
\* entries of receivedBuffer.  The for loop reads no entry at or beyond
\* bytesToRead, so only that prefix is kept.
ReadChunk ==
  /\ pc \in {"while", "rewhile"}
  /\ Len(rx) > 0
  /\ bytesToRead' = ChunkSize(Len(rx))
  /\ receivedBuffer' = [k \in 0 .. bytesToRead' - 1 |-> rx[k + 1]]
  /\ rx' = SubSeq(rx, bytesToRead' + 1, Len(rx))
  /\ i' = 0
  /\ pc' = "for"
  /\ UNCHANGED << tx, ledBuffer, ledIndex, totalBytesRead, leds1, leds2,
                  consumed, frameStart, shown, log, writes >>
  /\ UNCHANGED host

\* Variant: the position is taken from the counter after its increment.
LedPosition_AfterIncrement(total) == (total + 1) \div 3

\* int ledPosition = totalBytesRead / 3
LedPosition(total) == total \div 3

\* Variant: the hand-off test is one too high.
TripletComplete_Late(idx) == idx = 4

\* if (ledIndex == 3)
TripletComplete(idx) == idx = 3

\* Variant: the frame-range guard is missing.
InFrame_NoGuard(ledPosition) == TRUE

\* if (ledPosition < TOTAL_LED_COUNT)
InFrame(ledPosition) == ledPosition < TOTAL_LED_COUNT

\* One iteration of the for loop.  A write to leds1 or leds2 is recorded in
\* writes with the index the statement uses.
ProcessByte ==
  /\ pc = "for"
  /\ i < bytesToRead
  /\ LET buf == [ledBuffer EXCEPT ![ledIndex] = receivedBuffer[i]]
         idx == ledIndex + 1
         ledPosition == LedPosition(totalBytesRead)
         pixel == CRGB(buf[0], buf[1], buf[2])
     IN  /\ ledBuffer' = buf
         /\ IF TripletComplete(idx)
            THEN /\ ledIndex' = 0
                 /\ IF InFrame(ledPosition)
                    THEN IF ledPosition < LED_COUNT_PER_STRIP
                         THEN /\ leds1' = [leds1 EXCEPT ![ledPosition] = pixel]
                              /\ writes' = Append(writes, << 1, ledPosition >>)
                              /\ UNCHANGED leds2
                         ELSE /\ leds2' = [leds2 EXCEPT
                                   ![ledPosition - LED_COUNT_PER_STRIP] = pixel]
                              /\ writes' = Append(writes,
                                   << 2, ledPosition - LED_COUNT_PER_STRIP >>)
                              /\ UNCHANGED leds1
                    ELSE UNCHANGED << leds1, leds2, writes >>
            ELSE /\ ledIndex' = idx
                 /\ UNCHANGED << leds1, leds2, writes >>
  /\ totalBytesRead' = totalBytesRead + 1
  /\ i' = i + 1
  /\ consumed' = consumed + 1
  /\ UNCHANGED << pc, rx, tx, receivedBuffer, bytesToRead, frameStart, shown,
                  log >>
  /\ UNCHANGED host

\* Variant: the completion test is strict.
GateOpen_Strict(total) == total > NUMBER_OF_BYTES_TO_READ

\* Variant: the completion test fires one byte early.
GateOpen_Early(total) == total >= NUMBER_OF_BYTES_TO_READ - 1

\* if (totalBytesRead >= NUMBER_OF_BYTES_TO_READ)
GateOpen(total) == total >= NUMBER_OF_BYTES_TO_READ

\* Variant: the acknowledgment is written before the display call.
CompletionOrder_AckFirst == << "ack", "show", "reset" >>

\* The statements of the if's body, in program order: FastLED.show(),
\* Serial.write(ACK_BYTE), the three assignments.
CompletionOrder == << "show", "ack", "reset" >>

\* The place that runs after statement s of the if's body.
StageAfter(s) ==
  LET k == CHOOSE n \in 1 .. Len(CompletionOrder) : CompletionOrder[n] = s
  IN  IF k = Len(CompletionOrder) THEN "rewhile" ELSE CompletionOrder[k + 1]

\* The for loop is over: the completion test after the chunk.
FrameGate ==
  /\ pc = "for"
  /\ i >= bytesToRead
  /\ pc' = IF GateOpen(totalBytesRead) THEN CompletionOrder[1] ELSE "rewhile"
  /\ UNCHANGED << rx, tx, receivedBuffer, bytesToRead, i, ledBuffer, ledIndex,
                  totalBytesRead, leds1, leds2, consumed, frameStart, shown,
                  log, writes >>
  /\ UNCHANGED host

\* Variant: the strips are cleared once they have been pushed.
Show_Clear ==
  /\ pc = "show"
  /\ shown' = Append(shown, [s1 |-> leds1, s2 |-> leds2, start |-> frameStart])
  /\ log' = Append(log, "show")
  /\ pc' = StageAfter("show")
  /\ leds1' = [k \in 0 .. LED_COUNT_PER_STRIP - 1 |-> CRGB(0, 0, 0)]
  /\ leds2' = [k \in 0 .. LED_COUNT_PER_STRIP - 1 |-> CRGB(0, 0, 0)]
  /\ UNCHANGED << rx, tx, receivedBuffer, bytesToRead, i, ledBuffer, ledIndex,
                  totalBytesRead, consumed, frameStart, writes >>
  /\ UNCHANGED host

\* FastLED.show()
Show ==
  /\ pc = "show"
  /\ shown' = Append(shown, [s1 |-> leds1, s2 |-> leds2, start |-> frameStart])
  /\ log' = Append(log, "show")
  /\ pc' = StageAfter("show")
  /\ UNCHANGED << rx, tx, receivedBuffer, bytesToRead, i, ledBuffer, ledIndex,
                  totalBytesRead, leds1, leds2, consumed, frameStart, writes >>
  /\ UNCHANGED host

\* Serial.write(ACK_BYTE)
Ack ==
  /\ pc = "ack"
  /\ tx' = Append(tx, ACK_BYTE)
  /\ log' = Append(log, "ack")
  /\ pc' = StageAfter("ack")
  /\ UNCHANGED << rx, receivedBuffer, bytesToRead, i, ledBuffer, ledIndex,
                  totalBytesRead, leds1, leds2, consumed, frameStart, shown,
                  writes >>
  /\ UNCHANGED host

\* Variant: the partial triplet is not cleared.
Reset_KeepIndex ==
  /\ pc = "reset"
  /\ totalBytesRead' = 0
  /\ frameStart' = consumed
  /\ log' = Append(log, "reset")
  /\ pc' = StageAfter("reset")
  /\ writes' = << >>
  /\ UNCHANGED << rx, tx, receivedBuffer, bytesToRead, i, ledBuffer, leds1,
                  leds2, consumed, shown, ledIndex >>
  /\ UNCHANGED host

\* Variant: the counter is not cleared.
Reset_KeepCounter ==
  /\ pc = "reset"
  /\ ledIndex' = 0
  /\ frameStart' = consumed
  /\ log' = Append(log, "reset")
  /\ pc' = StageAfter("reset")
  /\ writes' = << >>
  /\ UNCHANGED << rx, tx, receivedBuffer, bytesToRead, i, ledBuffer, leds1,
                  leds2, consumed, shown, totalBytesRead >>
  /\ UNCHANGED host

\* receivedBlocks = 0; totalBytesRead = 0; ledIndex = 0;
\* (receivedBlocks is written here and read nowhere.)
Reset ==
  /\ pc = "reset"
  /\ totalBytesRead' = 0
  /\ ledIndex' = 0
  /\ frameStart' = consumed
  /\ log' = Append(log, "reset")
  /\ pc' = StageAfter("reset")
  /\ writes' = << >>
  /\ UNCHANGED << rx, tx, receivedBuffer, bytesToRead, i, ledBuffer, leds1,
                  leds2, consumed, shown >>
  /\ UNCHANGED host

Firmware ==
  \/ Setup
  \/ LoopEnter
  \/ LoopReturn
  \/ ReadChunk
  \/ ProcessByte
  \/ FrameGate
  \/ Show
  \/ Ack
  \/ Reset

\* -------------------------------------------------------------------- host
\* The host may send the next byte: under the contract, a frame is started
\* only when every earlier frame has been acknowledged.
HostMaySend ==
  \/ ~hostWaits
  \/ sent % NUMBER_OF_BYTES_TO_READ # 0
  \/ CountAcks(tx) >= sent \div NUMBER_OF_BYTES_TO_READ

\* The host sends one byte; it arrives in the receive buffer.
HostSend ==
  /\ pc # "setup"
  /\ sent < MaxStreamBytes
  /\ Len(rx) < RxCapacity
  /\ HostMaySend
  /\ IF sent % NUMBER_OF_BYTES_TO_READ = 0
     THEN \E p \in Patterns : frames' = Append(frames, p)
     ELSE UNCHANGED frames
  /\ sent' = sent + 1
  /\ rx' = Append(rx, FrameByte(frames'[Len(frames')],
                                sent % NUMBER_OF_BYTES_TO_READ))
  /\ UNCHANGED hostWaits
  /\ UNCHANGED fw

Next == Firmware \/ HostSend

Spec == Init /\ [][Next]_vars

\* loop() is called again and again, and every statement completes.
FairSpec == Spec /\ WF_vars(Firmware)

\* The same, with a host that keeps the one-frame-in-flight contract.
ContractInit == Init /\ hostWaits
ContractSpec == ContractInit /\ [][Next]_vars /\ WF_vars(Firmware)

\* ------------------------------------------------------------- observations
\* No chunk is partly processed.
AtChunkBoundary == pc \in {"idle", "while", "rewhile"}

\* Number of events e in the log.
RECURSIVE CountIn(_, _)
CountIn(e, s) ==
  IF s = << >> THEN 0
  ELSE (IF Head(s) = e THEN 1 ELSE 0) + CountIn(e, Tail(s))

nShow == CountIn("show", log)
nAck == CountIn("ack", log)
nReset == CountIn("reset", log)

\* The pixel made of the three stream bytes that follow offset o (0-based).
StreamPixel(o) ==
  CRGB(StreamByte(o + 1), StreamByte(o + 2), StreamByte(o + 3))

\* The strips a frame that starts at stream offset o (0-based) describes.
StreamStrip1(o) ==
  [n \in 0 .. LED_COUNT_PER_STRIP - 1 |-> StreamPixel(o + 3 * n)]
StreamStrip2(o) ==
  [n \in 0 .. LED_COUNT_PER_STRIP - 1 |->
     StreamPixel(o + 3 * (LED_COUNT_PER_STRIP + n))]

\* The strips a frame of pattern p describes.
PatternPixel(p, n) ==
  CRGB(FrameByte(p, 3 * n), FrameByte(p, 3 * n + 1), FrameByte(p, 3 * n + 2))
PatternStrip1(p) ==
  [n \in 0 .. LED_COUNT_PER_STRIP - 1 |-> PatternPixel(p, n)]
PatternStrip2(p) ==
  [n \in 0 .. LED_COUNT_PER_STRIP - 1 |->
     PatternPixel(p, LED_COUNT_PER_STRIP + n)]

\* ------------------------------------------------------------------ claims

\* C1: every frame completion runs display, then the acknowledgment write,
\* then the counter reset: the events occur in rounds show, ack, reset; an
\* ack byte is on the wire only when a display call of the same round came
\* before it; while a round is open (shown, not yet reset) the counter still
\* holds the full frame, so the reset comes after the ack.
C1_DisplayAckReset ==
  /\ \A k \in 1 .. Len(log) : log[k] = << "show", "ack", "reset" >>[((k - 1) % 3) + 1]
  /\ Len(shown) = nShow
  /\ CountAcks(tx) = nAck
  /\ nReset < nShow => totalBytesRead >= NUMBER_OF_BYTES_TO_READ

C1_Witness ==
  /\ pc = "reset"
  /\ log = << "show", "ack", "reset", "show", "ack" >>

\* C2: under the one-frame-in-flight contract, with loop() called again and
\* again, every frame the host has sent in full is eventually displayed and
\* acknowledged, and never more acknowledgments or display calls exist than
\* frames sent in full.
C2_FrameEventuallyAcked ==
  /\ [](hostWaits =>
          /\ CountAcks(tx) <= sent \div NUMBER_OF_BYTES_TO_READ
          /\ Len(shown) <= sent \div NUMBER_OF_BYTES_TO_READ)
  /\ \A k \in 1 .. MaxFrames :
       (hostWaits /\ sent >= k * NUMBER_OF_BYTES_TO_READ)
         ~> (CountAcks(tx) >= k /\ Len(shown) >= k)

C2_Witness ==
  /\ hostWaits
  /\ sent = MaxFrames * NUMBER_OF_BYTES_TO_READ
  /\ CountAcks(tx) = MaxFrames
  /\ Len(shown) = MaxFrames

\* C3: whenever no chunk is partly processed and B bytes have been consumed,
\* exactly B \div NUMBER_OF_BYTES_TO_READ acknowledgments and display calls
\* have been issued.
C3_AckPerFrameOfBytes ==
  AtChunkBoundary =>
    /\ CountAcks(tx) = consumed \div NUMBER_OF_BYTES_TO_READ
    /\ Len(shown) = consumed \div NUMBER_OF_BYTES_TO_READ

\* C4: at every display call the strips hold the first NUMBER_OF_BYTES_TO_READ
\* bytes consumed since the previous reset, routed by byte offset (triplet n
\* to strip 1 pixel n, triplet LED_COUNT_PER_STRIP + n to strip 2 pixel n);
\* when nothing has been consumed since the last reset the counter and the
\* partial triplet are empty.
C4_RoutingAtDisplay ==
  /\ \A j \in 1 .. Len(shown) :
       /\ shown[j].s1 = StreamStrip1(shown[j].start)
       /\ shown[j].s2 = StreamStrip2(shown[j].start)
  /\ pc \in {"show", "ack", "reset"} =>
       /\ leds1 = StreamStrip1(frameStart)
       /\ leds2 = StreamStrip2(frameStart)
  /\ consumed = frameStart => totalBytesRead = 0 /\ ledIndex = 0

C4_Witness ==
  /\ Len(shown) = 2
  /\ shown[2].start > NUMBER_OF_BYTES_TO_READ
  /\ shown[1].s1 # shown[2].s1
  /\ pc = "rewhile"
  /\ consumed = frameStart

\* C5: chunk-boundary invariance: once a stream of k whole frames has been
\* consumed, however it was chunked, k display calls and k acknowledgments
\* have happened and the j-th display showed the j-th frame of the stream,
\* as a decoder that tests completion after every byte would.
C5_ChunkInvariance ==
  (/\ AtChunkBoundary
   /\ consumed = sent
   /\ sent >= NUMBER_OF_BYTES_TO_READ
   /\ sent % NUMBER_OF_BYTES_TO_READ = 0)
  => /\ Len(shown) = sent \div NUMBER_OF_BYTES_TO_READ
     /\ CountAcks(tx) = sent \div NUMBER_OF_BYTES_TO_READ
     /\ \A j \in 1 .. Len(shown) :
          /\ shown[j].s1 = StreamStrip1((j - 1) * NUMBER_OF_BYTES_TO_READ)
          /\ shown[j].s2 = StreamStrip2((j - 1) * NUMBER_OF_BYTES_TO_READ)

\* C6: counted from a reset, the counter is the number of bytes consumed;
\* while it is below NUMBER_OF_BYTES_TO_READ no display call and no
\* acknowledgment has happened since the reset; once it has reached it, the
\* chunk in hand is finished and the completion runs (no further chunk is
\* read, loop() does not return), with one display call and one
\* acknowledgment before the reset.
C6_FrameBoundary ==
  /\ totalBytesRead = consumed - frameStart
  /\ totalBytesRead < NUMBER_OF_BYTES_TO_READ =>
       /\ pc \notin {"show", "ack", "reset"}
       /\ nShow = nReset
       /\ nAck = nReset
  /\ totalBytesRead >= NUMBER_OF_BYTES_TO_READ =>
       /\ pc \in {"for", "show", "ack", "reset"}
       /\ nShow <= nReset + 1
       /\ nAck <= nReset + 1
  /\ pc = "reset" => nShow = nReset + 1 /\ nAck = nReset + 1

C6_Witness ==
  /\ pc = "reset"
  /\ bytesToRead = 1
  /\ totalBytesRead = NUMBER_OF_BYTES_TO_READ
  /\ log = << "show", "ack" >>

\* C7: a byte consumed after the last byte of a frame is kept: once
\* NUMBER_OF_BYTES_TO_READ + 1 bytes have been consumed there has been one
\* display call and one acknowledgment, the counter is 1 and the partial
\* triplet holds the extra byte; in general the counter is the number of
\* bytes consumed modulo the frame size whenever no chunk is partly
\* processed.
C7_ExtraByteKept ==
  AtChunkBoundary =>
    /\ totalBytesRead = consumed % NUMBER_OF_BYTES_TO_READ
    /\ consumed = NUMBER_OF_BYTES_TO_READ + 1 =>
         /\ Len(shown) = 1
         /\ CountAcks(tx) = 1
         /\ totalBytesRead = 1
         /\ ledIndex = 1
         /\ ledBuffer[0] = StreamByte(NUMBER_OF_BYTES_TO_READ + 1)

\* C8: under the one-frame-in-flight contract every display call shows the
\* frame the host sent for it, so two copies of one frame give the same
\* strips twice; when the frames sent have been consumed there is one
\* acknowledgment per frame and nothing is left in the counter or the
\* partial triplet.
C8_SameFrameTwice ==
  hostWaits =>
    /\ \A j \in 1 .. Len(shown) :
         /\ shown[j].s1 = PatternStrip1(frames[j])
         /\ shown[j].s2 = PatternStrip2(frames[j])
    /\ \A j, k \in 1 .. Len(shown) :
         frames[j] = frames[k] =>
           shown[j].s1 = shown[k].s1 /\ shown[j].s2 = shown[k].s2
    /\ (/\ AtChunkBoundary
        /\ consumed = sent
        /\ sent % NUMBER_OF_BYTES_TO_READ = 0)
       => /\ CountAcks(tx) = sent \div NUMBER_OF_BYTES_TO_READ
          /\ Len(shown) = sent \div NUMBER_OF_BYTES_TO_READ
          /\ totalBytesRead = 0
          /\ ledIndex = 0

C8_Witness ==
  /\ hostWaits
  /\ AtChunkBoundary
  /\ Len(shown) = 2
  /\ frames = << 1, 1 >>
  /\ shown[1].s1 = shown[2].s1
  /\ shown[1].s2 = shown[2].s2
  /\ CountAcks(tx) = 2

\* C9: the per-frame byte counter stays within
\* 0 .. NUMBER_OF_BYTES_TO_READ after every byte.
C9_CounterWithinFrame ==
  0 <= totalBytesRead /\ totalBytesRead <= NUMBER_OF_BYTES_TO_READ

\* C10 as stated: every byte written to the host is an acknowledgment byte.
C10_OnlyAcksWritten ==
  \A k \in 1 .. Len(tx) : tx[k] = ACK_BYTE

\* C10, amended: setup() writes the banner line once; every byte written
\* after it is an acknowledgment byte, one per display call.
C10_BannerThenAcks ==
  /\ pc = "setup" => tx = << >>
  /\ pc # "setup" =>
       /\ Len(tx) >= Len(Banner)
       /\ SubSeq(tx, 1, Len(Banner)) = Banner
       /\ \A k \in Len(Banner) + 1 .. Len(tx) : tx[k] = ACK_BYTE
       /\ Len(tx) - Len(Banner) = Len(shown) - (IF pc = "ack" THEN 1 ELSE 0)

C10_Witness ==
  /\ pc = "reset"
  /\ Len(tx) = Len(Banner) + 2
  /\ tx[Len(tx)] = ACK_BYTE

\* A step of the for loop: one byte is consumed.
ByteStep == consumed' = consumed + 1

\* C11: every pixel write goes to strip 1 or strip 2 at an index within
\* 0 .. LED_COUNT_PER_STRIP - 1; a byte that completes a triplet at a
\* position at or beyond 2 * LED_COUNT_PER_STRIP writes no pixel, and every
\* byte consumed, such a one included, adds one to the byte counter.
C11_OverrunDiscarded ==
  /\ [](\A k \in 1 .. Len(writes) :
          /\ writes[k][1] \in {1, 2}
          /\ writes[k][2] \in 0 .. LED_COUNT_PER_STRIP - 1)
  /\ [][ByteStep =>
          /\ totalBytesRead' = totalBytesRead + 1
          /\ (totalBytesRead \div 3 >= 2 * LED_COUNT_PER_STRIP =>
                /\ leds1' = leds1
                /\ leds2' = leds2
                /\ writes' = writes)]_vars

\* A triplet past the frame's end has just been completed and discarded.
C11_Witness ==
  /\ pc = "for"
  /\ totalBytesRead = NUMBER_OF_BYTES_TO_READ + 3
  /\ ledIndex = 0
  /\ Len(writes) = TOTAL_LED_COUNT

\* C12: the partial triplet's length is 0, 1 or 2 whenever a byte has been
\* processed; every byte is stored in the staging buffer at that length (an
\* index in 0 .. 2); the third byte of a triplet hands it over and the length
\* goes back to 0, any other byte adds one to it.
C12_PartialTripletLength ==
  /\ [](ledIndex \in 0 .. 2)
  /\ [][ByteStep =>
          /\ ledIndex \in DOMAIN ledBuffer
          /\ ledBuffer' = [ledBuffer EXCEPT ![ledIndex] = receivedBuffer[i]]
          /\ ledIndex' = (IF ledIndex = 2 THEN 0 ELSE ledIndex + 1)
          /\ (writes' # writes => ledIndex = 2)]_vars

\* The first triplet has just been handed over.
C12_Witness ==
  /\ pc = "for"
  /\ totalBytesRead = 3
  /\ ledIndex = 0
  /\ Len(writes) = 1
  /\ ledBuffer = [k \in 0 .. 2 |-> StreamByte(frameStart + k + 1)]

\* C13: no resynchronization and no timeout: while fewer than
\* NUMBER_OF_BYTES_TO_READ bytes have been consumed since the last reset, a
\* step that consumes no byte (a poll, a return, a new call of loop(), the
\* host sending) leaves the counter, the partial triplet and the strips as
\* they are, and makes no display call and no acknowledgment.
C13_NoResync ==
  [][(totalBytesRead < NUMBER_OF_BYTES_TO_READ /\ consumed' = consumed) =>
       /\ totalBytesRead' = totalBytesRead
       /\ ledIndex' = ledIndex
       /\ ledBuffer' = ledBuffer
       /\ leds1' = leds1
       /\ leds2' = leds2
       /\ shown' = shown
       /\ log' = log
       /\ CountAcks(tx') = CountAcks(tx)]_vars

\* The host has stopped in the middle of a frame and loop() has returned.
C13_Witness ==
  /\ pc = "idle"
  /\ Len(rx) = 0
  /\ consumed = sent
  /\ totalBytesRead = NUMBER_OF_BYTES_TO_READ - 1
  /\ log = << >>

\* The logical position of a pixel write: strip 1 first, then strip 2.
LogicalPosition(w) ==
  IF w[1] = 1 THEN w[2] ELSE LED_COUNT_PER_STRIP + w[2]

\* C14: between two counter resets the pixel writes go to the logical
\* positions 0, 1, 2, ... in that order: strip 1 in index order, then strip 2
\* in index order, no slot twice.
C14_WritesInOrder ==
  /\ Len(writes) <= TOTAL_LED_COUNT
  /\ \A k \in 1 .. Len(writes) : LogicalPosition(writes[k]) = k - 1
  /\ \A j, k \in 1 .. Len(writes) : j < k =>
       /\ writes[j] # writes[k]
       /\ writes[j][1] <= writes[k][1]

\* The second frame has been written in full, after a first frame that ran
\* past its end.
C14_Witness ==
  /\ frameStart > NUMBER_OF_BYTES_TO_READ
  /\ Len(writes) = TOTAL_LED_COUNT
  /\ writes[1] = << 1, 0 >>
  /\ writes[TOTAL_LED_COUNT] = << 2, LED_COUNT_PER_STRIP - 1 >>

\* C15: effect of one byte on the strips: a byte that does not complete a
\* triplet changes no pixel; a byte that completes a triplet at a position
\* below 2 * LED_COUNT_PER_STRIP sets the one slot at that position to the
\* triplet and changes no other pixel; no other step (display,
\* acknowledgment, reset, poll) changes a pixel.
C15_OnePixelPerTriplet ==
  [][LET p == totalBytesRead \div 3
         px == CRGB(ledBuffer[0], ledBuffer[1], receivedBuffer[i])
     IN  /\ (ByteStep /\ ledIndex # 2) => (leds1' = leds1 /\ leds2' = leds2)
         /\ (ByteStep /\ ledIndex = 2 /\ p < LED_COUNT_PER_STRIP) =>
              /\ leds1' = [leds1 EXCEPT ![p] = px]
              /\ leds2' = leds2
         /\ (/\ ByteStep
             /\ ledIndex = 2
             /\ p >= LED_COUNT_PER_STRIP
             /\ p < 2 * LED_COUNT_PER_STRIP) =>
              /\ leds2' = [leds2 EXCEPT ![p - LED_COUNT_PER_STRIP] = px]
              /\ leds1' = leds1
         /\ ~ByteStep => (leds1' = leds1 /\ leds2' = leds2)]_vars

\* The first pixel of strip 2 of a second frame has just been written: the
\* rest of strip 2 still shows the first frame.
C15_Witness ==
  /\ pc = "for"
  /\ Len(shown) = 1
  /\ Len(writes) = LED_COUNT_PER_STRIP + 1
  /\ leds1 = StreamStrip1(frameStart)
  /\ leds2[0] = StreamPixel(frameStart + 3 * LED_COUNT_PER_STRIP)
  /\ leds2[0] # shown[1].s2[0]
  /\ \A n \in 1 .. LED_COUNT_PER_STRIP - 1 : leds2[n] = shown[1].s2[n]

\* What a call of loop() can work on: the strips, the counter, the partial
\* triplet, the display calls, the transport in both directions.
Work ==
  << leds1, leds2, totalBytesRead, ledIndex, ledBuffer, consumed, shown, log,
     tx, rx >>

\* C16: a call of loop() that finds zero bytes available does no work:
\* entering loop() changes nothing, and the poll that sees no byte is
\* followed at once by the return, with the strips, the counter, the partial
\* triplet and the transport untouched and no display call.
C16_EmptyTickNoWork ==
  [][/\ (pc = "idle" /\ pc' # pc) => (pc' = "while" /\ Work' = Work)
     /\ (pc = "while" /\ Len(rx) = 0 /\ pc' # pc) =>
          (pc' = "idle" /\ Work' = Work)]_vars

\* A call of loop() polls with nothing available, in the middle of a frame
\* that follows a displayed one.
C16_Witness ==
  /\ pc = "while"
  /\ Len(rx) = 0
  /\ Len(shown) = 1
  /\ totalBytesRead = 1
  /\ ledIndex = 1

\* A poll of the transport that finds N >= 1 bytes reads the first
\* min(N, DATA_BLOCK_SIZE) of them, in order, and nothing else.
ReadsOneChunk ==
  LET n == IF Len(rx) < DATA_BLOCK_SIZE THEN Len(rx) ELSE DATA_BLOCK_SIZE
  IN  /\ pc' = "for"
      /\ bytesToRead' = n
      /\ i' = 0
      /\ \A k \in 0 .. n - 1 : receivedBuffer'[k] = rx[k + 1]
      /\ rx' = SubSeq(rx, n + 1, Len(rx))

\* C17 as stated: a call of loop() that finds N >= 1 bytes consumes exactly
\* min(N, DATA_BLOCK_SIZE) bytes, one chunk, and then returns, even when
\* bytes remain.
C17_OneChunkPerTick ==
  [][/\ (pc = "while" /\ Len(rx) >= 1 /\ pc' # pc) => ReadsOneChunk
     /\ (pc = "for" /\ pc' # pc) => i = bytesToRead
     /\ (pc = "rewhile" /\ pc' # pc) => pc' = "idle"]_vars

\* C17, amended: every poll that finds N >= 1 bytes consumes exactly
\* min(N, DATA_BLOCK_SIZE) bytes, one chunk; after the chunk the same call
\* of loop() polls again, and it returns only when a poll finds zero bytes.
C17_OneChunkPerPoll ==
  [][/\ (pc \in {"while", "rewhile"} /\ Len(rx) >= 1 /\ pc' # pc) =>
          ReadsOneChunk
     /\ (pc = "for" /\ pc' # pc) => i = bytesToRead
     /\ (pc \in {"for", "reset"} /\ pc' \notin {"for", "show", "ack", "reset"}) =>
          pc' = "rewhile"
     /\ pc' = "idle" => (pc \in {"setup", "idle"} \/ Len(rx) = 0)]_vars

\* A full chunk has been processed, bytes remain, and loop() has not
\* returned: the next poll reads another chunk in the same call.
C17_Witness ==
  /\ pc = "rewhile"
  /\ bytesToRead = DATA_BLOCK_SIZE
  /\ i = bytesToRead
  /\ Len(rx) >= 1

\* C18: the partial triplet's length is the byte counter modulo 3 whenever
\* a byte has been processed, and a byte completes a triplet exactly when
\* the counter before its increment is 2 modulo 3.
C18_Alignment ==
  /\ [](ledIndex = totalBytesRead % 3)
  /\ [][ByteStep => ((ledIndex' = 0) <=> (totalBytesRead % 3 = 2))]_vars

\* A reset has cut a triplet in two (the frame before ran one byte past its
\* end, or two), and the next frame is aligned again.
C18_Witness ==
  /\ frameStart % 3 # 0
  /\ totalBytesRead = 2
  /\ ledIndex = 2
  /\ pc = "for"

\* C19: the byte counter never exceeds
\* NUMBER_OF_BYTES_TO_READ + DATA_BLOCK_SIZE - 1, and is below
\* NUMBER_OF_BYTES_TO_READ whenever no chunk is partly processed; so the
\* pixel position computed from it fits a signed 16-bit int, and at most
\* DATA_BLOCK_SIZE - 1 bytes are consumed past a frame's end before the
\* reset.
C19_CounterBound ==
  /\ totalBytesRead <= NUMBER_OF_BYTES_TO_READ + DATA_BLOCK_SIZE - 1
  /\ AtChunkBoundary => totalBytesRead < NUMBER_OF_BYTES_TO_READ
  /\ totalBytesRead \div 3 <= 32767
  /\ totalBytesRead \div 3
       <= (NUMBER_OF_BYTES_TO_READ + DATA_BLOCK_SIZE - 1) \div 3
  /\ consumed - frameStart - NUMBER_OF_BYTES_TO_READ <= DATA_BLOCK_SIZE - 1

\* A chunk of DATA_BLOCK_SIZE bytes began one byte before the frame's end.
C19_Witness ==
  /\ pc = "for"
  /\ i = bytesToRead
  /\ bytesToRead = DATA_BLOCK_SIZE
  /\ totalBytesRead = NUMBER_OF_BYTES_TO_READ + DATA_BLOCK_SIZE - 1

=============================================================================
